---------------------------- MODULE Spec2Model ----------------------------
(***************************************************************************)
(* The streaming conversation engine of chaichat: the useChat hook state   *)
(* (messages, isLoading, error, abortControllerRef), sendMessageHandler    *)
(* with its startStreaming consumer loop and its coalescing timers, and    *)
(* stopGenerationHandler.                                                  *)
(*                                                                         *)
(* Every call of sendMessage gets a call number g.  The call's user        *)
(* message has id UserId(g), its assistant placeholder AssistantId(g) and  *)
(* the AbortController it creates is identified by g as well.              *)
(*                                                                         *)
(* Time advances in ticks of TickMs milliseconds.  Strings are sequences   *)
(* of characters, so that concatenation and length are the real ones.      *)
(***************************************************************************)
EXTENDS Integers, Sequences, FiniteSets, TLC

\* ---- bounds of the model ----
MaxSends == 2
MaxChunks == 2
MaxHistory == 7
MaxSaves == 2
MaxSessions == 2

\* ---- program constants, in milliseconds ----
UpdateThresholdMs == 100
DebounceMs == 300
SaveDelayMs == 500

\* one tick of the model's clock: half the debounce delay, so that an elapsed
\* time is 0 (not above the threshold), one tick (above the threshold, before
\* the trailing timer) or the whole debounce delay
TickMs == DebounceMs \div 2
DebounceTicks == DebounceMs \div TickMs
\* the autosave delay in whole ticks, rounded up: longer than the debounce
SaveTicks == (SaveDelayMs + TickMs - 1) \div TickMs

Gens == 1..MaxSends
NoController == 0
NoTimer == -1

\* The k-th text delta a provider yields.  The consumer never looks into a
\* delta, so one stream of distinct deltas of different lengths stands for all
\* streams.  No delta is empty: both providers yield only truthy content.
DeltaAt(k) == IF k % 2 = 1 THEN <<"a", "b">> ELSE <<"c">>

\* the user texts
Texts == { <<"H", "i">> }

\* what a provider's chatStream throws: both wrap every failure in a new Error
ProviderErrors ==
  { [name |-> "Error", message |-> <<"Failed to stream chat response from Ollama">>] }

VARIABLES
  messages,            \* useState messages: sequence of [id, role, content]
  isLoading,           \* useState isLoading
  error,               \* useState error: <<>> is null, else the message
  renderedIsLoading,   \* the isLoading captured by the sendMessage closure
  abortControllerRef,  \* abortControllerRef.current: NoController or a call number
  aborted,             \* the controllers whose signal is aborted
  pc,                  \* position of each sendMessage call
  fullResponse,        \* startStreaming's local fullResponse
  lastUpdate,          \* ticks since startStreaming's local lastUpdate (capped)
  updateTimeout,       \* startStreaming's local updateTimeout: ticks left or NoTimer
  chunks,              \* the deltas the provider yielded to the call, in order
  emitted,             \* the content snapshots the call wrote to its message, in order
  stalled,             \* whether the backend has gone silent for good
  sentWhile,           \* the calls issued while a generation was Generating
  nextGen,             \* number of sendMessage calls issued so far
  summaryJob,          \* the call's deferred summary job: "none", "scheduled",
                       \* "streaming", "resolved" or "rejected"
  chatSummary,         \* useState chatSummary: <<>> is the empty string
  currentSessionId,    \* useState currentSessionId
  sessions,            \* useState sessions: id -> [messages, updatedAt]
  db,                  \* the messages table: session id -> rows, oldest first
  isSwitchingSessionRef, \* isSwitchingSessionRef.current
  effectPending,       \* a dependency of the autosave effect changed, the
                       \* effect has not run again yet
  saveTimeout,         \* the autosave effect's saveTimeout: ticks left or NoTimer
  saves,               \* the runs of the autosave timer's callback, in order
  sessionOf,           \* the currentSessionId each call of sendMessage was given
  clearChatPc,         \* position of the clearChat call: "idle", "createSession"
  loadSessionPc,       \* the session a loadSession call is fetching, or 0
  switchTimers,        \* pending setTimeout(0) that reset isSwitchingSessionRef
  deleted,             \* the sessions deleted from the sessions table
  params,              \* the closure a call of sendMessageHandler is given
  messageHistory       \* startStreaming's messageHistory: <<>> until assembled

\* the prompt assembly of startStreaming: its inputs and its result
promptVars == << params, messageHistory >>

\* the generation controller: the hook state and the calls of sendMessage
genVars == << messages, isLoading, error, renderedIsLoading, abortControllerRef,
              aborted, pc, fullResponse, lastUpdate, updateTimeout, chunks,
              emitted, stalled, sentWhile, nextGen, summaryJob >>

\* the rolling summary
summaryVars == << chatSummary >>

\* the Session Synchronizer: what the generation controller never touches
syncStore == << currentSessionId, db, isSwitchingSessionRef, saves,
                clearChatPc, loadSessionPc, switchTimers, deleted >>

syncVars == << syncStore, sessions, effectPending, saveTimeout, sessionOf >>

vars == << genVars, summaryVars, promptVars, syncVars >>

UserId(g) == 2 * g - 1
AssistantId(g) == 2 * g

RECURSIVE Concat(_)
Concat(ss) == IF ss = <<>> THEN <<>> ELSE Head(ss) \o Concat(Tail(ss))

\* abortControllerRef.current?.signal.aborted
IsAborted(ref, ab) == ref # NoController /\ ref \in ab

\* prevMessages.map(msg => msg.id === id ? {...msg, content} : msg)
SetContent(msgs, id, c) ==
  [i \in DOMAIN msgs |->
     IF msgs[i].id = id THEN [msgs[i] EXCEPT !.content = c] ELSE msgs[i]]

\* prevMessages.filter(msg => msg.id !== id)
RemoveMessage(msgs, id) == SelectSeq(msgs, LAMBDA m : m.id # id)

\* `Error: ${errorMessage}`
ErrorMarker(msg) == <<"Error: ">> \o msg

\* now - lastUpdate > 100
ImmediateDue(elapsed) == elapsed * TickMs > UpdateThresholdMs

\* fullResponse = chunk, for fullResponse += chunk
AccumulateLastOnly(full, chunk) == chunk

\* fullResponse += chunk
Accumulate(full, chunk) == full \o chunk

\* the timer is left pending, for clearTimeout(updateTimeout)
TimeoutKept(t) == t

\* if (updateTimeout) clearTimeout(updateTimeout), after the loop
ClearedTimeout(t) == NoTimer

\* the pending timer is left alone, for clearTimeout(updateTimeout);
\* updateTimeout = null before an immediate update
PendingKept(t) == t

\* if (updateTimeout) { clearTimeout(updateTimeout); updateTimeout = null },
\* before an immediate update (lines 194-197)
ClearPending(t) == NoTimer

\* if (!updateTimeout) updateTimeout = setTimeout(..., 300) (lines 208-224)
ArmTimeout(t) == IF t = NoTimer THEN DebounceTicks ELSE t

\* no final update, for if (!aborted) setMessages(...)
FinalUpdateNever(ref, ab) == FALSE

\* an unconditional final update, for if (!aborted) setMessages(...)
FinalUpdateAlways(ref, ab) == TRUE

\* the guard of the final update: !abortControllerRef.current?.signal.aborted
FinalUpdateAllowed(ref, ab) == ~IsAborted(ref, ab)

\* the guard of the trailing timer's update
TimerUpdateAllowed(ref, ab) == ~IsAborted(ref, ab)

\* if (!selectedModel || isLoading || !currentSessionId) return
SendRejected(closureIsLoading) == closureIsLoading

\* the number of deltas the providers have yielded so far, over all calls
RECURSIVE SumLen(_, _)
SumLen(f, S) ==
  IF S = {} THEN 0
  ELSE LET x == CHOOSE y \in S : TRUE IN Len(f[x]) + SumLen(f, S \ {x})
ChunksYielded == SumLen(chunks, Gens)

Deltas == { DeltaAt(k) : k \in 1..MaxChunks }

Generating == { g \in Gens : pc[g] = "streaming" }

HasMessage(id) == \E i \in DOMAIN messages : messages[i].id = id
ContentOf(id) ==
  LET i == CHOOSE j \in DOMAIN messages : messages[j].id = id
  IN  messages[i].content

\* ---- the prompt assembly of startStreaming (lines 122-169) ----

\* ...currentMessages.slice(-4)
HistoryLimit == 4

\* the ids of the two system messages (crypto.randomUUID(), fresh)
SystemMessageId == -1
SummaryMessageId == -2

\* the characterPrompt template (lines 126-133)
CharacterPrompt(c) ==
  << "You are roleplaying as ", c.name, ". ", c.description,
     "\n\nEmbody this character completely: [...] Respond as if you truly are ",
     c.name >>

\* effectiveSystemPrompt (lines 123-140); selectedCharacter is <<>> when
\* undefined, else a one-element sequence
EffectiveSystemPrompt(systemPrompt, selectedCharacter) ==
  IF selectedCharacter # <<>>
  THEN IF systemPrompt # <<>>
       THEN CharacterPrompt(selectedCharacter[1]) \o <<"\n\n">> \o systemPrompt
       ELSE CharacterPrompt(selectedCharacter[1])
  ELSE systemPrompt

\* systemMessage (lines 143-152)
SystemMessage(effectiveSystemPrompt) ==
  IF effectiveSystemPrompt # <<>>
  THEN << [id |-> SystemMessageId, role |-> "system",
           content |-> effectiveSystemPrompt] >>
  ELSE <<>>

\* summaryMessage (lines 153-162)
SummaryMessage(summary) ==
  IF summary # <<>>
  THEN << [id |-> SummaryMessageId, role |-> "system",
           content |-> <<"Conversation summary: ">> \o summary] >>
  ELSE <<>>

\* seq.slice(-n)
LastN(seq, n) ==
  IF Len(seq) <= n THEN seq ELSE SubSeq(seq, Len(seq) - n + 1, Len(seq))

\* currentMessages.slice(0, 4), for currentMessages.slice(-4)
OldestFew(currentMessages) ==
  SubSeq(currentMessages, 1,
         IF Len(currentMessages) <= HistoryLimit THEN Len(currentMessages)
         ELSE HistoryLimit)

\* currentMessages.slice(-3), for currentMessages.slice(-4)
OneTurnShort(currentMessages) == LastN(currentMessages, HistoryLimit - 1)

\* currentMessages.slice(-4)
SelectHistory(currentMessages) == LastN(currentMessages, HistoryLimit)

\* [...summaryMessage, ...systemMessage, ...], for the order of lines 164-165
SummaryBeforeSystem(p, userMessage) ==
  SummaryMessage(p.chatSummary)
    \o SystemMessage(EffectiveSystemPrompt(p.systemPrompt, p.selectedCharacter))
    \o SelectHistory(p.messages)
    \o << userMessage >>

\* messageHistory (lines 163-169)
MessageHistory(p, userMessage) ==
  SystemMessage(EffectiveSystemPrompt(p.systemPrompt, p.selectedCharacter))
    \o SummaryMessage(p.chatSummary)
    \o SelectHistory(p.messages)
    \o << userMessage >>

\* the inputs of the assembly: a conversation of k prior turns, alternately
\* of the user and of the assistant, each with a content of its own
PriorTurns(k) ==
  [i \in 1..k |->
     [id |-> i, role |-> IF i % 2 = 1 THEN "user" ELSE "assistant",
      content |-> [j \in 1..i |-> "x"]]]

SystemPrompts == { <<>>, <<"Be brief.">> }
Characters == { <<>>, << [name |-> "Ada", description |-> "A mathematician."] >> }
Summaries == { <<>>, <<"They greeted.">> }

ParamsSet ==
  { [systemPrompt |-> sp, selectedCharacter |-> c, chatSummary |-> cs,
     messages |-> PriorTurns(k), content |-> t] :
      sp \in SystemPrompts, c \in Characters, cs \in Summaries,
      k \in 0..MaxHistory, t \in Texts }

\* the closure of the first render: nothing set, no message
InitialParams ==
  [systemPrompt |-> <<>>, selectedCharacter |-> <<>>, chatSummary |-> <<>>,
   messages |-> <<>>, content |-> <<>>]

\* userMessage (lines 59-64)
UserMessage(p) ==
  [id |-> Len(p.messages) + 1, role |-> "user", content |-> p.content]

\* ---- the Session Synchronizer's state after the mount loader (useChat,
\* ---- lines 89-177) has run on an empty database: one new session, that is
\* ---- current, no message, the switching flag reset
FirstSession == 1
NoSession == 0

NewSession == [messages |-> <<>>, updatedAt |-> 0]

SyncInit ==
  /\ currentSessionId = FirstSession
  /\ sessions = (FirstSession :> NewSession)
  /\ db = (FirstSession :> <<>>)
  /\ isSwitchingSessionRef = FALSE
  /\ effectPending = FALSE
  /\ saveTimeout = NoTimer
  /\ saves = <<>>
  /\ sessionOf = [g \in Gens |-> NoSession]
  /\ clearChatPc = "idle"
  /\ loadSessionPc = NoSession
  /\ switchTimers = 0
  /\ deleted = {}

\* prev.map(s => s.id === id ? {...s, updatedAt: nowIso} : s)
TouchSession(sess, id) ==
  [s \in DOMAIN sess |->
     IF s = id THEN [sess[s] EXCEPT !.updatedAt = @ + 1] ELSE sess[s]]

Init ==
  /\ messages = <<>>
  /\ isLoading = FALSE
  /\ error = <<>>
  /\ renderedIsLoading = FALSE
  /\ abortControllerRef = NoController
  /\ aborted = {}
  /\ pc = [g \in Gens |-> "idle"]
  /\ fullResponse = [g \in Gens |-> <<>>]
  /\ lastUpdate = [g \in Gens |-> 0]
  /\ updateTimeout = [g \in Gens |-> NoTimer]
  /\ chunks = [g \in Gens |-> <<>>]
  /\ emitted = [g \in Gens |-> <<>>]
  /\ stalled = FALSE
  /\ sentWhile = {}
  /\ nextGen = 0
  /\ summaryJob = [g \in Gens |-> "none"]
  /\ chatSummary = <<>>
  /\ params = InitialParams
  /\ SyncInit
  /\ messageHistory = <<>>


\* ---- the React render: the sendMessage callback is re-created with the
\* ---- current state (useCallback dependencies of useChat.sendMessage).
\* ---- React schedules the render when the state is set, ahead of the timers
\* ---- and I/O completions that come later: only the calls a caller makes in
\* ---- the meantime (sendMessage, stopGeneration) see the old closure.
RenderPending == renderedIsLoading # isLoading

Render ==
  /\ UNCHANGED << summaryVars, promptVars, syncVars >>
  /\ renderedIsLoading # isLoading
  /\ renderedIsLoading' = isLoading
  /\ UNCHANGED << messages, isLoading, error, abortControllerRef, aborted, pc,
                  fullResponse, lastUpdate, updateTimeout, chunks, emitted,
                  stalled, sentWhile, nextGen, summaryJob >>

\* ---- sendMessageHandler up to its first await (lines 46-116)
SendMessage(text) ==
  /\ UNCHANGED << summaryVars, promptVars, syncStore, sessions, saveTimeout >>
  /\ nextGen < MaxSends
  /\ LET g == nextGen + 1 IN
     /\ nextGen' = g
     /\ sentWhile' = IF Generating = {} THEN sentWhile ELSE sentWhile \cup {g}
     /\ IF SendRejected(renderedIsLoading)
        THEN /\ pc' = [pc EXCEPT ![g] = "dropped"]
             /\ UNCHANGED << messages, isLoading, error, aborted,
                             effectPending, sessionOf >>
        ELSE /\ aborted' = IF abortControllerRef # NoController
                           THEN aborted \cup {abortControllerRef}
                           ELSE aborted
             /\ isLoading' = TRUE
             /\ error' = <<>>
             /\ messages' = messages \o
                  << [id |-> UserId(g), role |-> "user", content |-> text],
                     [id |-> AssistantId(g), role |-> "assistant", content |-> <<>>] >>
             /\ pc' = [pc EXCEPT ![g] = "updateSession"]
             /\ sessionOf' = [sessionOf EXCEPT ![g] = currentSessionId]
             /\ effectPending' = TRUE
  /\ UNCHANGED << renderedIsLoading, abortControllerRef, fullResponse,
                  lastUpdate, updateTimeout, chunks, emitted, stalled,
                  summaryJob >>

\* ---- the database layer answers its calls in the order they were made (one
\* ---- IPC channel to a synchronous handler, or localStorage)
DbAnswers(g) ==
  /\ pc[g] = "updateSession"
  /\ \A h \in Gens : h < g => pc[h] # "updateSession"

\* ---- dbService.updateSession resolves; startStreaming runs up to the first
\* ---- await of the for-await loop (lines 92-180)
UpdateSessionDone(g) ==
  /\ UNCHANGED << summaryVars, promptVars, syncStore, saveTimeout, sessionOf >>
  /\ sessions' = TouchSession(sessions, sessionOf[g])
  /\ effectPending' = TRUE
  /\ ~RenderPending
  /\ DbAnswers(g)
  /\ abortControllerRef' = g
  /\ fullResponse' = [fullResponse EXCEPT ![g] = <<>>]
  /\ lastUpdate' = [lastUpdate EXCEPT ![g] = 0]
  /\ updateTimeout' = [updateTimeout EXCEPT ![g] = NoTimer]
  /\ pc' = [pc EXCEPT ![g] = "streaming"]
  /\ UNCHANGED << messages, isLoading, error, renderedIsLoading, aborted,
                  chunks, emitted, stalled, sentWhile, nextGen, summaryJob >>

\* ---- dbService.updateSession rejects: the await at line 92/108 throws out of
\* ---- sendMessageHandler, startStreaming is never called
UpdateSessionFail(g) ==
  /\ UNCHANGED << summaryVars, promptVars, syncVars >>
  /\ ~RenderPending
  /\ DbAnswers(g)
  /\ pc' = [pc EXCEPT ![g] = "threw"]
  /\ UNCHANGED << messages, isLoading, error, renderedIsLoading,
                  abortControllerRef, aborted, fullResponse, lastUpdate,
                  updateTimeout, chunks, emitted, stalled, sentWhile, nextGen, summaryJob >>

\* ---- lines 228-245 and the finally block 300-303: what runs once the
\* ---- for-await loop is left, by the end of the stream or by break: the
\* ---- pending timer is cleared, the final update is made unless cancelled,
\* ---- the summary job is scheduled (setTimeout 0)
LeaveLoop(g) ==
  /\ updateTimeout' = [updateTimeout EXCEPT ![g] = ClearedTimeout(@)]
  /\ IF FinalUpdateAllowed(abortControllerRef, aborted)
     THEN /\ messages' = SetContent(messages, AssistantId(g), fullResponse[g])
          /\ emitted' = [emitted EXCEPT ![g] = Append(@, fullResponse[g])]
     ELSE UNCHANGED << messages, emitted >>
  /\ pc' = [pc EXCEPT ![g] =
        IF IsAborted(abortControllerRef, aborted) THEN "cancelled" ELSE "completed"]
  /\ summaryJob' = [summaryJob EXCEPT ![g] = "scheduled"]
  /\ effectPending' =
       (effectPending \/ isLoading \/ FinalUpdateAllowed(abortControllerRef, aborted))
  /\ isLoading' = FALSE
  /\ abortControllerRef' = NoController
  /\ lastUpdate' = [lastUpdate EXCEPT ![g] = 0]

\* ---- the provider yields a delta: one iteration of the loop (lines 180-226)
Deliver(g, chunk) ==
  /\ UNCHANGED << summaryVars, promptVars, syncStore, sessions, saveTimeout, sessionOf >>
  /\ ~RenderPending
  /\ pc[g] = "streaming"
  /\ ~stalled
  /\ ChunksYielded < MaxChunks
  /\ chunk = DeltaAt(Len(chunks[g]) + 1)
  /\ chunks' = [chunks EXCEPT ![g] = Append(@, chunk)]
  /\ IF IsAborted(abortControllerRef, aborted)
     THEN /\ LeaveLoop(g)
          /\ UNCHANGED << fullResponse, error >>
     ELSE LET full == Accumulate(fullResponse[g], chunk) IN
          /\ fullResponse' = [fullResponse EXCEPT ![g] = full]
          /\ IF ImmediateDue(lastUpdate[g])
             THEN /\ lastUpdate' = [lastUpdate EXCEPT ![g] = 0]
                  /\ updateTimeout' = [updateTimeout EXCEPT ![g] = ClearPending(@)]
                  /\ messages' = SetContent(messages, AssistantId(g), full)
                  /\ emitted' = [emitted EXCEPT ![g] = Append(@, full)]
                  /\ effectPending' = TRUE
             ELSE /\ updateTimeout' = [updateTimeout EXCEPT ![g] = ArmTimeout(@)]
                  /\ UNCHANGED << lastUpdate, messages, emitted, effectPending >>
          /\ UNCHANGED << pc, isLoading, abortControllerRef, error, summaryJob >>
  /\ UNCHANGED << renderedIsLoading, aborted, stalled, sentWhile, nextGen >>

\* ---- the provider's stream ends (done): the loop is left normally
StreamEnd(g) ==
  /\ UNCHANGED << summaryVars, promptVars, syncStore, sessions, saveTimeout, sessionOf >>
  /\ ~RenderPending
  /\ pc[g] = "streaming"
  /\ ~stalled
  /\ LeaveLoop(g)
  /\ UNCHANGED << error, renderedIsLoading, aborted, fullResponse, chunks,
                  stalled, sentWhile, nextGen >>

\* ---- the provider throws: catch and finally (lines 282-303)
StreamError(g, err) ==
  /\ UNCHANGED << summaryVars, promptVars, syncStore, sessions, saveTimeout, sessionOf >>
  /\ effectPending' = TRUE
  /\ ~RenderPending
  /\ pc[g] = "streaming"
  /\ ~stalled
  /\ IF err.name = "AbortError"
     THEN /\ messages' = RemoveMessage(messages, AssistantId(g))
          /\ pc' = [pc EXCEPT ![g] = "cancelled"]
          /\ UNCHANGED error
     ELSE /\ error' = err.message
          /\ messages' = SetContent(messages, AssistantId(g), ErrorMarker(err.message))
          /\ pc' = [pc EXCEPT ![g] = "failed"]
  /\ isLoading' = FALSE
  /\ abortControllerRef' = NoController
  /\ lastUpdate' = [lastUpdate EXCEPT ![g] = 0]
  /\ UNCHANGED << renderedIsLoading, aborted, fullResponse, updateTimeout,
                  chunks, emitted, stalled, sentWhile, nextGen, summaryJob >>

\* ---- the backend goes silent for good: no delta, no end, no error
Stall ==
  /\ UNCHANGED << summaryVars, promptVars, syncVars >>
  /\ ~RenderPending
  /\ Generating # {}
  /\ ~stalled
  /\ stalled' = TRUE
  /\ UNCHANGED << messages, isLoading, error, renderedIsLoading,
                  abortControllerRef, aborted, pc, fullResponse, lastUpdate,
                  updateTimeout, chunks, emitted, sentWhile, nextGen, summaryJob >>

\* ---- the trailing timer's callback (lines 209-223)
TimerFire(g) ==
  /\ UNCHANGED << summaryVars, promptVars, syncStore, sessions, saveTimeout, sessionOf >>
  /\ ~RenderPending
  /\ updateTimeout[g] = 0
  /\ IF TimerUpdateAllowed(abortControllerRef, aborted)
     THEN /\ messages' = SetContent(messages, AssistantId(g), fullResponse[g])
          /\ emitted' = [emitted EXCEPT ![g] = Append(@, fullResponse[g])]
          /\ effectPending' = TRUE
     ELSE UNCHANGED << messages, emitted, effectPending >>
  /\ updateTimeout' = [updateTimeout EXCEPT ![g] = NoTimer]
  /\ lastUpdate' = [lastUpdate EXCEPT ![g] = 0]
  /\ UNCHANGED << isLoading, error, renderedIsLoading, abortControllerRef,
                  aborted, pc, fullResponse, chunks, stalled, sentWhile, nextGen, summaryJob >>

\* ---- 100 ms pass: no timer that is due is skipped
Tick ==
  /\ UNCHANGED << summaryVars, promptVars, syncStore, sessions, effectPending, sessionOf >>
  /\ ~RenderPending
  /\ \A g \in Gens : updateTimeout[g] # 0
  /\ saveTimeout # 0
  /\ \/ \E g \in Gens : pc[g] = "streaming" \/ updateTimeout[g] > 0
     \/ saveTimeout > 0
  /\ saveTimeout' = IF saveTimeout > 0 THEN saveTimeout - 1 ELSE saveTimeout
  /\ updateTimeout' = [g \in Gens |->
        IF updateTimeout[g] > 0 THEN updateTimeout[g] - 1 ELSE updateTimeout[g]]
  /\ lastUpdate' = [g \in Gens |->
        IF pc[g] = "streaming" /\ ~ImmediateDue(lastUpdate[g])
        THEN lastUpdate[g] + 1 ELSE lastUpdate[g]]
  /\ UNCHANGED << messages, isLoading, error, renderedIsLoading,
                  abortControllerRef, aborted, pc, fullResponse, chunks,
                  emitted, stalled, sentWhile, nextGen, summaryJob >>

\* ---- stopGenerationHandler (lines 367-373)
StopGeneration ==
  /\ UNCHANGED << summaryVars, promptVars, syncVars >>
  /\ abortControllerRef # NoController
  /\ abortControllerRef \notin aborted
  /\ aborted' = aborted \cup {abortControllerRef}
  /\ UNCHANGED << messages, isLoading, error, renderedIsLoading,
                  abortControllerRef, pc, fullResponse, lastUpdate,
                  updateTimeout, chunks, emitted, stalled, sentWhile, nextGen, summaryJob >>

Next ==
  \/ Render
  \/ \E text \in Texts : SendMessage(text)
  \/ \E g \in Gens : UpdateSessionDone(g)
  \/ \E g \in Gens : UpdateSessionFail(g)
  \/ \E g \in Gens : \E chunk \in Deltas : Deliver(g, chunk)
  \/ \E g \in Gens : StreamEnd(g)
  \/ \E g \in Gens : \E err \in ProviderErrors : StreamError(g, err)
  \/ Stall
  \/ \E g \in Gens : TimerFire(g)
  \/ Tick
  \/ StopGeneration

Spec == Init /\ [][Next]_vars

\* ---- what the event loop, React and the IPC layer guarantee: a pending
\* ---- render runs, a pending database call is answered, a due timer fires,
\* ---- time passes.  The backend guarantees nothing but that it answers or is
\* ---- silent for good.
BackendStep ==
  \/ \E g \in Gens : \E chunk \in Deltas : Deliver(g, chunk)
  \/ \E g \in Gens : StreamEnd(g)
  \/ \E g \in Gens : \E err \in ProviderErrors : StreamError(g, err)
  \/ Stall

Fairness ==
  /\ WF_vars(Render)
  /\ WF_vars(\E g \in Gens : UpdateSessionDone(g) \/ UpdateSessionFail(g))
  /\ WF_vars(\E g \in Gens : TimerFire(g))
  /\ WF_vars(Tick)
  /\ WF_vars(BackendStep)

FairSpec == Init /\ [][Next]_vars /\ Fairness

\* ---- the summary job (lines 245-281) ----

\* what the provider streams back for the summary request of call g: some
\* text of its own, with white space around it
SummaryResponse(g) == << " ", "summary of turn ", ToString(g), "\n" >>

WhiteSpace == { " ", "\n" }

\* String.prototype.trim()
RECURSIVE TrimStart(_)
TrimStart(str) ==
  IF str # <<>> /\ Head(str) \in WhiteSpace THEN TrimStart(Tail(str)) ELSE str

RECURSIVE TrimEnd(_)
TrimEnd(str) ==
  IF str # <<>> /\ str[Len(str)] \in WhiteSpace
  THEN TrimEnd(SubSeq(str, 1, Len(str) - 1)) ELSE str

Trim(str) == TrimEnd(TrimStart(str))

\* the job's timer fires (setTimeout 0): the summary request is sent
SummaryStart(g) ==
  /\ ~RenderPending
  /\ summaryJob[g] = "scheduled"
  /\ summaryJob' = [summaryJob EXCEPT ![g] = "streaming"]
  /\ UNCHANGED << messages, isLoading, error, renderedIsLoading,
                  abortControllerRef, aborted, pc, fullResponse, lastUpdate,
                  updateTimeout, chunks, emitted, stalled, sentWhile, nextGen,
                  summaryVars, promptVars, syncVars >>

\* the summary stream ends: setChatSummary(newSummary.trim()) (line 280)
SummaryResolve(g) ==
  /\ ~RenderPending
  /\ summaryJob[g] = "streaming"
  /\ summaryJob' = [summaryJob EXCEPT ![g] = "resolved"]
  /\ chatSummary' = Trim(SummaryResponse(g))
  /\ UNCHANGED << messages, isLoading, error, renderedIsLoading,
                  abortControllerRef, aborted, pc, fullResponse, lastUpdate,
                  updateTimeout, chunks, emitted, stalled, sentWhile, nextGen,
                  promptVars, syncVars >>

\* the summary stream throws: the timer's async callback rejects, nothing
\* catches it and nothing is set
SummaryReject(g) ==
  /\ ~RenderPending
  /\ summaryJob[g] = "streaming"
  /\ summaryJob' = [summaryJob EXCEPT ![g] = "rejected"]
  /\ UNCHANGED << messages, isLoading, error, renderedIsLoading,
                  abortControllerRef, aborted, pc, fullResponse, lastUpdate,
                  updateTimeout, chunks, emitted, stalled, sentWhile, nextGen,
                  summaryVars, promptVars, syncVars >>

\* the generation controller together with the summary jobs it schedules
SummaryNext ==
  \/ Next
  \/ \E g \in Gens : SummaryStart(g)
  \/ \E g \in Gens : SummaryResolve(g)
  \/ \E g \in Gens : SummaryReject(g)

SummarySpec == Init /\ [][SummaryNext]_vars

\* ---- the Session Synchronizer: the autosave effect of useChat (lines
\* ---- 180-257) and the messages table behind dbService ----

Ids(msgs) == { msgs[i].id : i \in DOMAIN msgs }

\* the ids stored in the messages table (id is its primary key)
StoredIds(store) == UNION { Ids(store[sid]) : sid \in DOMAIN store }

\* messages.filter(m => !existingMessageIds.has(m.id))
NewMessages(msgs, snapshot) ==
  SelectSeq(msgs, LAMBDA m : m.id \notin Ids(snapshot))

\* messages.filter(m => existingMessage && existingMessage.content !== m.content)
UpdatedMessages(msgs, snapshot) ==
  SelectSeq(msgs, LAMBDA m :
    \E i \in DOMAIN snapshot :
      snapshot[i].id = m.id /\ snapshot[i].content # m.content)

\* DatabaseService.addMessages: INSERT OR IGNORE INTO messages, row by row
InsertOrIgnore(store, sid, msgs) ==
  [store EXCEPT ![sid] =
     @ \o SelectSeq(msgs, LAMBDA m : m.id \notin StoredIds(store))]

\* the catch block only logs, for its setSessions(prev => prev.map(...))
CatchOnlyLogs == FALSE

\* the catch block of the save callback (lines 247-253): setSessions with a
\* new array of the same sessions, which re-renders and re-runs the effect
CatchSetsSessions == TRUE

SaveInFlight == { "addMessages", "updateSession" }

\* the effect runs after a render in which one of its dependencies changed
\* (lines 180-186 and the cleanup at 256): the timer of the previous run is
\* cleared, a new one is armed unless streaming or switching
AutosaveEffect ==
  /\ effectPending
  /\ ~RenderPending
  /\ effectPending' = FALSE
  /\ saveTimeout' = IF isLoading \/ isSwitchingSessionRef THEN NoTimer ELSE SaveTicks
  /\ UNCHANGED << genVars, summaryVars, promptVars, syncStore, sessions, sessionOf >>

\* the timer's callback up to its first await (lines 186-232)
SaveTimerFire ==
  /\ ~RenderPending
  /\ ~effectPending
  /\ saveTimeout = 0
  /\ Len(saves) < MaxSaves
  /\ saveTimeout' = NoTimer
  /\ LET found == currentSessionId \in DOMAIN sessions
         snapshot == IF found THEN sessions[currentSessionId].messages ELSE <<>>
         new == IF found THEN NewMessages(messages, snapshot) ELSE <<>>
         upd == IF found THEN UpdatedMessages(messages, snapshot) ELSE <<>>
         \* updateMessage is no method of DatabaseService: calling it throws
         to == IF new # <<>> THEN "addMessages"
               ELSE IF upd # <<>> THEN "failed" ELSE "nothing"
     IN  /\ saves' = Append(saves,
               [sessionId |-> currentSessionId, messages |-> messages,
                newMessages |-> new, updatedMessages |-> upd, pc |-> to])
         /\ effectPending' = (to = "failed" /\ CatchSetsSessions)
  /\ UNCHANGED << genVars, summaryVars, promptVars, currentSessionId, db,
                  isSwitchingSessionRef, clearChatPc, loadSessionPc, deleted,
                  switchTimers, sessions, sessionOf >>

\* dbService.addMessages resolves (line 210); the updates follow (215-228),
\* then updateSession is called (line 232)
AddMessagesDone(c) ==
  /\ ~RenderPending
  /\ ~effectPending
  /\ saves[c].pc = "addMessages"
  /\ saves[c].sessionId \in DOMAIN db
  /\ saves[c].sessionId \notin deleted
  /\ db' = InsertOrIgnore(db, saves[c].sessionId, saves[c].newMessages)
  /\ IF saves[c].updatedMessages # <<>>
     THEN /\ saves' = [saves EXCEPT ![c].pc = "failed"]
          /\ effectPending' = CatchSetsSessions
     ELSE /\ saves' = [saves EXCEPT ![c].pc = "updateSession"]
          /\ UNCHANGED effectPending
  /\ UNCHANGED << genVars, summaryVars, promptVars, currentSessionId,
                  isSwitchingSessionRef, clearChatPc, loadSessionPc, deleted,
                  switchTimers, sessions, saveTimeout, sessionOf >>

\* dbService.addMessages or dbService.updateSession rejects: the catch block
SaveCallFail(c) ==
  /\ ~RenderPending
  /\ ~effectPending
  /\ saves[c].pc \in SaveInFlight
  /\ saves' = [saves EXCEPT ![c].pc = "failed"]
  /\ effectPending' = CatchSetsSessions
  /\ UNCHANGED << genVars, summaryVars, promptVars, currentSessionId, db,
                  isSwitchingSessionRef, clearChatPc, loadSessionPc, deleted,
                  switchTimers, sessions, saveTimeout, sessionOf >>

\* dbService.updateSession resolves (lines 232-246): setSessions advances
\* updatedAt of the session the callback was armed for
SaveUpdateSessionDone(c) ==
  /\ ~RenderPending
  /\ ~effectPending
  /\ saves[c].pc = "updateSession"
  /\ saves' = [saves EXCEPT ![c].pc = "saved"]
  /\ sessions' = TouchSession(sessions, saves[c].sessionId)
  /\ effectPending' = TRUE
  /\ UNCHANGED << genVars, summaryVars, promptVars, currentSessionId, db,
                  isSwitchingSessionRef, clearChatPc, loadSessionPc, deleted,
                  switchTimers, saveTimeout, sessionOf >>

\* the generation state that the session handlers leave alone
genRest == << isLoading, renderedIsLoading, abortControllerRef, aborted, pc,
              fullResponse, lastUpdate, updateTimeout, chunks, emitted,
              stalled, sentWhile, nextGen, summaryJob >>

\* crypto.randomUUID() of createNewSession: the next unused session id
\* (db keeps the id of a deleted session, with no row)
NextSessionId == Cardinality(DOMAIN db) + 1

\* clearChatHandler up to its await of createNewSession (lines 176-185)
ClearChatStart ==
  /\ ~RenderPending
  /\ ~effectPending
  /\ clearChatPc = "idle"
  /\ NextSessionId <= MaxSessions
  /\ clearChatPc' = "createSession"
  /\ chatSummary' = <<>>
  /\ UNCHANGED << genVars, promptVars, currentSessionId, db,
                  isSwitchingSessionRef, saves, loadSessionPc, switchTimers, deleted,
                  sessions, effectPending, saveTimeout, sessionOf >>

\* dbService.createSession resolves: the new session becomes current and
\* the message list is emptied (lines 186-189)
ClearChatDone ==
  /\ ~RenderPending
  /\ ~effectPending
  /\ clearChatPc = "createSession"
  /\ clearChatPc' = "idle"
  /\ db' = (NextSessionId :> <<>>) @@ db
  /\ sessions' = (NextSessionId :> NewSession) @@ sessions
  /\ currentSessionId' = NextSessionId
  /\ messages' = <<>>
  /\ error' = <<>>
  /\ effectPending' = TRUE
  /\ UNCHANGED << genRest, summaryVars, promptVars, isSwitchingSessionRef,
                  saves, loadSessionPc, switchTimers, deleted, saveTimeout,
                  sessionOf >>

\* loadSessionHandler (lines 192-280) up to its await of getSession, or to
\* its end when the session is in memory with messages
LoadSession(sid) ==
  /\ ~RenderPending
  /\ ~effectPending
  /\ sid \in DOMAIN sessions
  /\ loadSessionPc = NoSession
  /\ switchTimers = 0
  /\ isSwitchingSessionRef' = TRUE
  /\ chatSummary' = <<>>
  /\ IF sessions[sid].messages = <<>>
     THEN /\ loadSessionPc' = sid
          /\ UNCHANGED << currentSessionId, messages, switchTimers, effectPending >>
     ELSE /\ currentSessionId' = sid
          /\ messages' = sessions[sid].messages
          /\ switchTimers' = switchTimers + 1
          /\ effectPending' = TRUE
          /\ UNCHANGED loadSessionPc
  /\ UNCHANGED << genRest, error, promptVars, db, saves, clearChatPc, deleted,
                  sessions, saveTimeout, sessionOf >>

\* dbService.getSession resolves (lines 223-279): the session in memory is
\* replaced by the stored one, which becomes current; when the row is gone
\* getSession returns null, and the empty session found in memory when the
\* handler was called becomes current
LoadSessionFetched ==
  /\ ~RenderPending
  /\ ~effectPending
  /\ loadSessionPc # NoSession
  /\ loadSessionPc \in DOMAIN db
  /\ IF loadSessionPc \notin deleted
     THEN /\ sessions' = [s \in DOMAIN sessions |->
                IF s = loadSessionPc
                THEN [sessions[s] EXCEPT !.messages = db[loadSessionPc]]
                ELSE sessions[s]]
          /\ messages' = db[loadSessionPc]
     ELSE /\ messages' = <<>>
          /\ UNCHANGED sessions
  /\ currentSessionId' = loadSessionPc
  /\ switchTimers' = switchTimers + 1
  /\ effectPending' = TRUE
  /\ loadSessionPc' = NoSession
  /\ UNCHANGED << genRest, error, summaryVars, promptVars, db,
                  isSwitchingSessionRef, saves, clearChatPc, deleted,
                  saveTimeout, sessionOf >>

\* deleteSessionHandler up to its await (lines 311-318): the database
\* deletes the session's row and, by cascade, its messages
DeleteSession(sid) ==
  /\ ~RenderPending
  /\ ~effectPending
  /\ sid \in DOMAIN sessions
  /\ sid \notin deleted
  /\ deleted' = deleted \cup {sid}
  /\ db' = [db EXCEPT ![sid] = <<>>]
  /\ UNCHANGED << genVars, summaryVars, promptVars, currentSessionId,
                  isSwitchingSessionRef, saves, clearChatPc, loadSessionPc,
                  switchTimers, sessions, effectPending, saveTimeout,
                  sessionOf >>

\* dbService.deleteSession resolves (lines 319-323): the session is
\* filtered out of the sessions list, nothing else is set
DeleteSessionDone(sid) ==
  /\ ~RenderPending
  /\ ~effectPending
  /\ sid \in deleted
  /\ sid \in DOMAIN sessions
  /\ sessions' = [s \in DOMAIN sessions \ {sid} |-> sessions[s]]
  /\ effectPending' = TRUE
  /\ UNCHANGED << genVars, summaryVars, promptVars, syncStore, saveTimeout,
                  sessionOf >>

\* the setTimeout(0) of loadSessionHandler (lines 277-279)
SwitchTimerFire ==
  /\ ~RenderPending
  /\ switchTimers > 0
  /\ switchTimers' = switchTimers - 1
  /\ isSwitchingSessionRef' = FALSE
  /\ UNCHANGED << genVars, summaryVars, promptVars, currentSessionId, db,
                  saves, clearChatPc, loadSessionPc, deleted, sessions, effectPending,
                  saveTimeout, sessionOf >>

\* ---- the generation controller together with the autosave effect, in one
\* ---- conversation.  React runs the effect of a render before the timers
\* ---- and I/O completions that come later, as it does the render.  The
\* ---- user sends at any moment; stopping and a backend that goes silent
\* ---- for good are left to Spec, the synchronizer does not read what they
\* ---- change.
SyncNext ==
  \/ Render
  \/ AutosaveEffect
  \/ \E text \in Texts : SendMessage(text)
  \/ ~effectPending /\ \E g \in Gens : UpdateSessionDone(g)
  \/ ~effectPending /\ \E g \in Gens : UpdateSessionFail(g)
  \/ ~effectPending /\ \E g \in Gens : \E chunk \in Deltas : Deliver(g, chunk)
  \/ ~effectPending /\ \E g \in Gens : StreamEnd(g)
  \/ ~effectPending /\ \E g \in Gens : \E err \in ProviderErrors : StreamError(g, err)
  \/ ~effectPending /\ \E g \in Gens : TimerFire(g)
  \/ ~effectPending /\ Tick
  \/ SaveTimerFire
  \/ \E c \in DOMAIN saves : AddMessagesDone(c)
  \/ \E c \in DOMAIN saves : SaveCallFail(c)
  \/ \E c \in DOMAIN saves : SaveUpdateSessionDone(c)

SyncSpec == Init /\ [][SyncNext]_vars

\* ---- the autosave effect in a conversation whose sends do not overlap:
\* ---- the user sends once the previous generation has ended and the
\* ---- screen shows it, the backend answers every request
SaveNext ==
  \/ Render
  \/ AutosaveEffect
  \/ /\ Generating = {}
     /\ ~RenderPending
     /\ ~effectPending
     /\ \E text \in Texts : SendMessage(text)
  \/ ~effectPending /\ \E g \in Gens : UpdateSessionDone(g)
  \/ ~effectPending /\ \E g \in Gens : \E chunk \in Deltas : Deliver(g, chunk)
  \/ ~effectPending /\ \E g \in Gens : StreamEnd(g)
  \/ ~effectPending /\ \E g \in Gens : TimerFire(g)
  \/ ~effectPending /\ Tick
  \/ SaveTimerFire
  \/ \E c \in DOMAIN saves : AddMessagesDone(c)
  \/ \E c \in DOMAIN saves : SaveCallFail(c)
  \/ \E c \in DOMAIN saves : SaveUpdateSessionDone(c)

SaveSpec == Init /\ [][SaveNext]_vars

\* ---- the session handlers together with generation and autosave: the
\* ---- user sends once the previous send, save and session change have been
\* ---- answered, and starts a new chat or opens a session at any moment;
\* ---- the backend and the database answer every request
SwitchNext ==
  \/ Render
  \/ AutosaveEffect
  \/ /\ Generating = {}
     /\ ~RenderPending
     /\ ~effectPending
     /\ \A g \in Gens : pc[g] # "updateSession" /\ updateTimeout[g] = NoTimer
     /\ \A c \in DOMAIN saves : saves[c].pc \notin SaveInFlight
     /\ clearChatPc = "idle"
     /\ loadSessionPc = NoSession
     /\ switchTimers = 0
     /\ \E text \in Texts : SendMessage(text)
  \/ ~effectPending /\ \E g \in Gens : UpdateSessionDone(g)
  \/ ~effectPending /\ \E g \in Gens : \E chunk \in Deltas : Deliver(g, chunk)
  \/ ~effectPending /\ \E g \in Gens : StreamEnd(g)
  \/ ~effectPending /\ \E g \in Gens : TimerFire(g)
  \/ ~effectPending /\ Tick
  \/ SaveTimerFire
  \/ \E c \in DOMAIN saves : AddMessagesDone(c)
  \/ \E c \in DOMAIN saves : SaveUpdateSessionDone(c)
  \/ ClearChatStart
  \/ ClearChatDone
  \/ \E sid \in 1..MaxSessions : LoadSession(sid)
  \/ LoadSessionFetched
  \/ SwitchTimerFire

SwitchSpec == Init /\ [][SwitchNext]_vars

\* ---- the session handlers between two runs of the autosave callback: no
\* ---- timer comes due; the user sends once the previous send and session
\* ---- change have been answered, starts a new chat, opens or deletes a
\* ---- session at any moment; a stream ends or fails, and the summary job
\* ---- of a finished generation runs
SessionNext ==
  \/ Render
  \/ AutosaveEffect
  \/ /\ Generating = {}
     /\ ~RenderPending
     /\ ~effectPending
     /\ \A g \in Gens : pc[g] # "updateSession"
     /\ clearChatPc = "idle"
     /\ loadSessionPc = NoSession
     /\ switchTimers = 0
     /\ \E text \in Texts : SendMessage(text)
  \/ ~effectPending /\ \E g \in Gens : UpdateSessionDone(g)
  \/ ~effectPending /\ \E g \in Gens : StreamEnd(g)
  \/ ~effectPending /\ \E g \in Gens : \E err \in ProviderErrors : StreamError(g, err)
  \/ \E g \in Gens : SummaryStart(g)
  \/ \E g \in Gens : SummaryResolve(g)
  \/ ClearChatStart
  \/ ClearChatDone
  \/ \E sid \in 1..MaxSessions : LoadSession(sid)
  \/ LoadSessionFetched
  \/ SwitchTimerFire
  \/ \E sid \in 1..MaxSessions : DeleteSession(sid)
  \/ \E sid \in 1..MaxSessions : DeleteSessionDone(sid)

SessionSpec == Init /\ [][SessionNext]_vars

\* ---- the Context Window Builder on its own: sendMessageHandler is called
\* ---- with some closure, and startStreaming assembles messageHistory
PromptInit ==
  /\ messages = <<>>
  /\ isLoading = FALSE
  /\ error = <<>>
  /\ renderedIsLoading = FALSE
  /\ abortControllerRef = NoController
  /\ aborted = {}
  /\ pc = [g \in Gens |-> "idle"]
  /\ fullResponse = [g \in Gens |-> <<>>]
  /\ lastUpdate = [g \in Gens |-> 0]
  /\ updateTimeout = [g \in Gens |-> NoTimer]
  /\ chunks = [g \in Gens |-> <<>>]
  /\ emitted = [g \in Gens |-> <<>>]
  /\ stalled = FALSE
  /\ sentWhile = {}
  /\ nextGen = 0
  /\ summaryJob = [g \in Gens |-> "none"]
  /\ chatSummary = <<>>
  /\ params \in ParamsSet
  /\ SyncInit
  /\ messageHistory = <<>>

AssemblePrompt ==
  /\ messageHistory = <<>>
  /\ messageHistory' = MessageHistory(params, UserMessage(params))
  /\ UNCHANGED << genVars, summaryVars, params, syncVars >>

PromptNext == AssemblePrompt

PromptSpec == PromptInit /\ [][PromptNext]_vars

AssistantContent(g) == ContentOf(AssistantId(g))
ErrorMarkers == { ErrorMarker(e.message) : e \in ProviderErrors }
Ended(g) == pc[g] \in { "completed", "cancelled" }

\* C1: at any instant at most one sendMessage call has its stream consumer
\* loop running (is Generating).
AtMostOneGenerating == Cardinality(Generating) <= 1

\* C2: a sendMessage call issued while a generation is Generating is never
\* dropped, and once its own generation streams, no earlier generation still
\* does (the prior one was cancelled first).
SupersessionNewestWins ==
  \A g \in sentWhile :
    /\ pc[g] # "dropped"
    /\ pc[g] = "streaming" => \A h \in Gens : h < g => pc[h] # "streaming"

\* C3: once stopGeneration has aborted the controller of a Generating call,
\* the call's consumer loop exits and the controller is Idle again (isLoading
\* false, abortControllerRef cleared), whatever the backend does afterwards.
StopReturnsToIdle ==
  \A g \in Gens :
    (pc[g] = "streaming" /\ abortControllerRef = g /\ g \in aborted)
      ~> (pc[g] # "streaming" /\ ~isLoading /\ abortControllerRef = NoController)

\* C4: a failed generation's assistant message holds the error marker
\* 'Error: <message>', and keeps holding it.
ErrorMarkerStays ==
  \A g \in Gens :
    pc[g] = "failed" =>
      /\ HasMessage(AssistantId(g))
      /\ AssistantContent(g) \in ErrorMarkers

\* C5: when a generation's stream has ended without a cancellation, the last
\* content written to the assistant message, and the content it holds, is the
\* concatenation in order of all the deltas the provider yielded.
CompletedHoldsAllDeltas ==
  \A g \in Gens :
    pc[g] = "completed" =>
      /\ emitted[g] # <<>>
      /\ emitted[g][Len(emitted[g])] = Concat(chunks[g])
      /\ HasMessage(AssistantId(g))
      /\ AssistantContent(g) = Concat(chunks[g])

\* C5 witness: a generation completed after two deltas.
CompletedAfterTwoDeltas ==
  \E g \in Gens : pc[g] = "completed" /\ Len(chunks[g]) = 2

\* C6: the successive snapshots one generation writes never get shorter.
SnapshotsNeverShrink ==
  \A g \in Gens :
    \A i \in 1..(Len(emitted[g]) - 1) :
      Len(emitted[g][i]) <= Len(emitted[g][i + 1])

\* C6 witness: a generation wrote a snapshot and then a longer one.
TwoGrowingSnapshots ==
  \E g \in Gens :
    /\ Len(emitted[g]) >= 2
    /\ Len(emitted[g][1]) < Len(emitted[g][2])

\* C7: once a generation has ended by completion or by cancellation, its
\* assistant message stays in the list with the same content and the
\* generation writes no further snapshot.
EndedContentFrozen ==
  [][\A g \in Gens :
       Ended(g) =>
         /\ emitted'[g] = emitted[g]
         /\ HasMessage(AssistantId(g)) =>
              /\ HasMessage(AssistantId(g))'
              /\ AssistantContent(g)' = AssistantContent(g)]_vars

\* C7 witness: a generation was cancelled with content already emitted, the
\* content is still there and a later generation is streaming.
CancelledContentKept ==
  \E g \in Gens : \E h \in Gens :
    /\ pc[g] = "cancelled"
    /\ emitted[g] # <<>>
    /\ AssistantContent(g) = emitted[g][Len(emitted[g])]
    /\ AssistantContent(g) # <<>>
    /\ pc[h] = "streaming"

\* C8: a generation cancelled before any content was committed to its
\* placeholder has its placeholder removed from the message list.
EmptyPlaceholderRemoved ==
  \A g \in Gens :
    (pc[g] = "cancelled" /\ emitted[g] = <<>>) => ~HasMessage(AssistantId(g))

\* C9, as claimed: a generation cancelled after content was committed ends
\* with a final flush, so that its message holds every delta accumulated
\* before the cancellation took effect.
CancelFlushesBuffered ==
  \A g \in Gens :
    (pc[g] = "cancelled" /\ emitted[g] # <<>>) =>
      AssistantContent(g) = fullResponse[g]

\* C9, amended: the step that ends a generation by cancellation writes
\* nothing: no final flush is emitted, the message list is left as it is, and
\* the pending trailing timer is cleared with the deltas buffered behind it.
CancelWritesNothing ==
  [][\A g \in Gens :
       (pc[g] = "streaming" /\ pc'[g] = "cancelled") =>
         /\ emitted'[g] = emitted[g]
         /\ messages' = messages
         /\ updateTimeout'[g] = NoTimer]_vars

\* C9 witness: a generation was cancelled while deltas were buffered, and
\* its message holds less than what was accumulated.
CancelledWithBufferedDeltas ==
  \E g \in Gens :
    /\ pc[g] = "cancelled"
    /\ fullResponse[g] # <<>>
    /\ AssistantContent(g) # fullResponse[g]

\* C10: a generation whose backend has gone silent for good ends Failed;
\* it does not stay Generating for ever.
StallEndsFailed ==
  \A g \in Gens : (pc[g] = "streaming" /\ stalled) ~> (pc[g] = "failed")

\* C18: a summary job is scheduled only for a generation that Completed with
\* non-empty content: none for a cancelled one, a failed one, or one whose
\* content is empty.
SummaryOnlyAfterNonEmptyCompletion ==
  \A g \in Gens :
    summaryJob[g] # "none" =>
      /\ pc[g] = "completed"
      /\ fullResponse[g] # <<>>

\* the prompt ends with the new user turn, holds every prior turn unchanged
\* and in order right before it, and only system turns before those
PreservesEveryTurn ==
  LET n == Len(messageHistory)
      h == Len(params.messages)
  IN  /\ n >= h + 1
      /\ messageHistory[n] = UserMessage(params)
      /\ SubSeq(messageHistory, n - h, n - 1) = params.messages
      /\ \A i \in 1..(n - h - 1) : messageHistory[i].role = "system"

\* the window sizes N the builder may be configured with
WindowSizes == 4..6

\* C19: when the conversation has more than N prior turns, the prompt holds
\* the 4 most recent prior turns verbatim, contiguous and in their order.
PromptKeepsRecentFour ==
  messageHistory # <<>> =>
    \A N \in WindowSizes :
      Len(params.messages) > N =>
        \E i \in 1..(Len(messageHistory) - 3) :
          SubSeq(messageHistory, i, i + 3) =
            SubSeq(params.messages, Len(params.messages) - 3, Len(params.messages))

\* C19 witness: a prompt was assembled for a conversation of more than 6
\* prior turns, with a persona and a summary.
PromptOfLongHistory ==
  /\ messageHistory # <<>>
  /\ Len(params.messages) > 6
  /\ params.selectedCharacter # <<>>
  /\ params.chatSummary # <<>>

\* C20, as claimed with N = 6: when the conversation has at most 6 prior
\* turns, the prompt preserves every prior turn, unchanged and in order,
\* after the preambles and before the new user turn.
PromptKeepsUpToSix ==
  (messageHistory # <<>> /\ Len(params.messages) <= 6) => PreservesEveryTurn

\* C20, amended: the same with N = 4, the limit the code applies.
PromptKeepsUpToFour ==
  (messageHistory # <<>> /\ Len(params.messages) <= 4) => PreservesEveryTurn

\* C20 witness: a prompt was assembled for a conversation of exactly 4 prior
\* turns, and both preambles are there.
PromptOfFourTurns ==
  /\ messageHistory # <<>>
  /\ Len(params.messages) = 4
  /\ Len(messageHistory) = 7

\* call h was accepted and its generation has started
Started(h) == pc[h] \in { "streaming", "completed", "cancelled", "failed" }

\* C17: when the summary job of a generation resolves after a newer
\* generation has started, its result is discarded: the rolling summary is
\* left as it is.
StaleSummaryDiscarded ==
  [][\A g \in Gens :
       ( /\ summaryJob[g] = "streaming"
         /\ summaryJob'[g] = "resolved"
         /\ \E h \in Gens : h > g /\ Started(h) )
       => chatSummary' = chatSummary]_vars

\* the rows stored for a session hold the same ids with the same content as
\* the message list msgs
StoredEquals(sid, msgs) ==
  /\ sid \in DOMAIN db
  /\ Ids(db[sid]) = Ids(msgs)
  /\ \A i \in DOMAIN msgs : \E j \in DOMAIN db[sid] :
        db[sid][j].id = msgs[i].id /\ db[sid][j].content = msgs[i].content

\* no generation is active and nothing has changed the message list since
\* the last run of the autosave callback, which saved it
SettledAfterSave ==
  /\ ~isLoading
  /\ ~RenderPending
  /\ ~effectPending
  /\ Generating = {}
  /\ \A g \in Gens : updateTimeout[g] = NoTimer
  /\ saves # <<>>
  /\ saves[Len(saves)].pc = "saved"
  /\ saves[Len(saves)].sessionId = currentSessionId
  /\ saves[Len(saves)].messages = messages

\* C11: once the conversation has settled (no generation active, the last
\* save ran on the message list as it is and succeeded), the messages stored
\* for the conversation are the in-memory ones, same ids and same content.
SettledStoreEqualsMemory ==
  SettledAfterSave => StoredEquals(currentSessionId, messages)

\* C12: after a successful save the snapshot the next diff uses, the
\* session's messages in the sessions list, is the message list saved.
SnapshotRefreshedOnSave ==
  [][\A c \in DOMAIN saves :
       (saves[c].pc = "updateSession" /\ saves'[c].pc = "saved") =>
         /\ sessions'[saves[c].sessionId].updatedAt
              > sessions[saves[c].sessionId].updatedAt
         /\ sessions'[saves[c].sessionId].messages = saves[c].messages]_vars

\* a step in which a run of the autosave callback issues a persistence call
IssuesSaveCall ==
  \/ /\ Len(saves') > Len(saves)
     /\ saves'[Len(saves')].pc \in SaveInFlight
  \/ \E c \in DOMAIN saves :
       saves[c].pc = "addMessages" /\ saves'[c].pc = "updateSession"

\* C13: while isLoading is true or a session switch is in progress, no run
\* of the autosave callback issues a persistence call.
NoSaveCallWhileGenerating ==
  [][IssuesSaveCall => (~isLoading /\ ~isSwitchingSessionRef)]_vars

\* C14: the runs of the autosave callback for one conversation are
\* serialized: at most one of them has a persistence call in flight.
SavesSerialized ==
  \A c \in DOMAIN saves : \A d \in DOMAIN saves :
    ( /\ c < d
      /\ saves[c].sessionId = saves[d].sessionId
      /\ saves[c].pc \in SaveInFlight )
    => saves[d].pc \notin SaveInFlight

\* the run c of the autosave callback ends in its catch block in this step
EndsInCatch(c) ==
  /\ saves'[c].pc = "failed"
  /\ c \in DOMAIN saves => saves[c].pc # "failed"

\* C15: a run of the autosave callback that fails leaves the stored rows
\* and the snapshot (the sessions' message lists) as they are and makes the
\* effect run again, so that a new timer is armed without any change of
\* the messages; a later run on the same message list computes the same
\* inserts and updates; and adding messages whose ids are all stored
\* leaves the store unchanged.
FailedSaveRetried ==
  [][ /\ \A c \in DOMAIN saves' :
           EndsInCatch(c) =>
             /\ db' = db
             /\ sessions' = sessions
             /\ effectPending'
      /\ \A c \in DOMAIN saves' : \A d \in DOMAIN saves' :
           ( /\ c < d
             /\ saves'[c].pc = "failed"
             /\ saves'[d].sessionId = saves'[c].sessionId
             /\ saves'[d].messages = saves'[c].messages )
           => /\ saves'[d].newMessages = saves'[c].newMessages
              /\ saves'[d].updatedMessages = saves'[c].updatedMessages
      /\ \A c \in DOMAIN saves :
           ( /\ saves[c].pc = "addMessages"
             /\ saves'[c].pc # "addMessages"
             /\ Ids(saves[c].newMessages) \subseteq StoredIds(db) )
           => db' = db ]_vars

\* a run that failed after its insert was followed, with no change of the
\* messages, by a run that made the same inserts again and succeeded
RetriedAfterFailure ==
  \E c \in DOMAIN saves : \E d \in DOMAIN saves :
    /\ c < d
    /\ saves[c].pc = "failed"
    /\ saves[c].newMessages # <<>>
    /\ saves[d].pc = "saved"
    /\ saves[d].messages = saves[c].messages
    /\ saves[d].newMessages = saves[c].newMessages
    /\ StoredEquals(saves[d].sessionId, saves[d].messages)

\* the sends that sendMessageHandler accepted
AcceptedSends == { g \in Gens : pc[g] \notin { "idle", "dropped" } }

\* C16: the user message of an accepted send stays in the history of its
\* conversation as long as the conversation is not deleted: it is in the
\* message list on screen while the conversation is the current one, or in
\* the conversation's entry of the sessions list, or in its stored rows.
SentMessageKept ==
  \A g \in AcceptedSends :
    sessionOf[g] \notin deleted =>
      \/ currentSessionId = sessionOf[g] /\ HasMessage(UserId(g))
      \/ /\ sessionOf[g] \in DOMAIN sessions
         /\ UserId(g) \in Ids(sessions[sessionOf[g]].messages)
      \/ UserId(g) \in Ids(db[sessionOf[g]])

\* str begins with pre
StartsWith(str, pre) ==
  Len(str) >= Len(pre) /\ SubSeq(str, 1, Len(pre)) = pre

IsSummaryTurn(m) ==
  m.role = "system" /\ StartsWith(m.content, <<"Conversation summary: ">>)

\* C21: the prompt is: at most one leading system turn, which is there when
\* a persona is bound and then begins with the persona's name, description
\* and the in-character instructions; then the system turn 'Conversation
\* summary: <summary>', there exactly when the summary is not empty; then
\* the selected history turns; then the new user turn, last.
PromptOrdered ==
  messageHistory # <<>> =>
    LET n == Len(messageHistory)
        hist == SelectHistory(params.messages)
        k == Len(hist)
        pre == SubSeq(messageHistory, 1, n - k - 1)
        hasSummary == params.chatSummary # <<>>
        lead == IF hasSummary THEN SubSeq(pre, 1, Len(pre) - 1) ELSE pre
    IN  /\ n >= k + 1
        /\ messageHistory[n] = UserMessage(params)
        /\ SubSeq(messageHistory, n - k, n - 1) = hist
        /\ hasSummary =>
             /\ pre # <<>>
             /\ pre[Len(pre)].role = "system"
             /\ pre[Len(pre)].content =
                  <<"Conversation summary: ">> \o params.chatSummary
        /\ ~hasSummary => \A i \in DOMAIN pre : ~IsSummaryTurn(pre[i])
        /\ Len(lead) <= 1
        /\ \A i \in DOMAIN lead : lead[i].role = "system" /\ ~IsSummaryTurn(lead[i])
        /\ params.selectedCharacter # <<>> =>
             /\ Len(lead) = 1
             /\ StartsWith(lead[1].content,
                           CharacterPrompt(params.selectedCharacter[1]))

\* C21 witness: a prompt was assembled with a persona, a system prompt of
\* the user, a summary and two prior turns: five turns in all.
PromptWithBothPreambles ==
  /\ messageHistory # <<>>
  /\ params.selectedCharacter # <<>>
  /\ params.systemPrompt # <<>>
  /\ params.chatSummary # <<>>
  /\ Len(params.messages) = 2
  /\ Len(messageHistory) = 5

\* C22 (Scenario A): when the backend's second delta arrives 300 ms after
\* the first, more than 150 ms apart, and no stop was requested, the
\* assistant message has taken the value of the first delta and then takes
\* the value of both: these are the two snapshots written.
ScenarioATwoSnapshots ==
  [][\A g \in Gens :
       ( /\ Len(chunks[g]) = 1
         /\ Len(chunks'[g]) = 2
         /\ updateTimeout[g] = 0
         /\ aborted = {} )
       => emitted'[g] = << chunks'[g][1], chunks'[g][1] \o chunks'[g][2] >>]_vars

\* the loop of call g took a delta and goes on in this step
TakesDelta(g) ==
  /\ Len(chunks'[g]) > Len(chunks[g])
  /\ pc'[g] = "streaming"

\* C23: a generation has one trailing timer at most: a delta that is not
\* emitted at once arms the timer only if none is pending and leaves a
\* pending one as it is; and a delta that is emitted at once cancels the
\* timer that was pending, so that none is left.
OneTrailingTimer ==
  [][\A g \in Gens :
       TakesDelta(g) =>
         /\ (emitted'[g] = emitted[g] /\ updateTimeout[g] # NoTimer)
              => updateTimeout'[g] = updateTimeout[g]
         /\ (emitted'[g] = emitted[g] /\ updateTimeout[g] = NoTimer)
              => updateTimeout'[g] = DebounceTicks
         /\ emitted'[g] # emitted[g] => updateTimeout'[g] = NoTimer]_vars

\* C23 witness: the first delta was held back behind a trailing timer and
\* the second one was emitted at once with it, which left no timer.
ImmediateCancelledTimer ==
  \E g \in Gens :
    /\ pc[g] = "streaming"
    /\ Len(chunks[g]) = 2
    /\ emitted[g] = << Concat(chunks[g]) >>
    /\ updateTimeout[g] = NoTimer

\* C27: when a step makes a conversation current again while no generation
\* is active and no save is in flight, the message list on screen holds
\* every turn that was sent in that conversation and stored for it,
\* the turns added since it was first loaded included.
RoundTripRestores ==
  [][\A sid \in DOMAIN db :
       ( /\ currentSessionId # sid
         /\ currentSessionId' = sid
         /\ ~isLoading
         /\ Generating = {}
         /\ \A c \in DOMAIN saves : saves[c].pc \notin SaveInFlight )
       => \A g \in AcceptedSends :
            (sessionOf[g] = sid /\ UserId(g) \in Ids(db[sid]))
              => UserId(g) \in Ids(messages')]_vars

\* no call of sendMessage is under way: none awaits updateSession and none
\* is consuming a stream
NoCallUnderWay == \A g \in Gens : pc[g] \notin { "updateSession", "streaming" }

\* C26: the controller is never stuck: isLoading is not true, and shown as
\* true to the sendMessage callback (which then rejects every send), while
\* no call is under way whose finally block would reset it.
NeverStuckLoading ==
  ~(isLoading /\ renderedIsLoading /\ NoCallUnderWay)

\* C29: autosave quiesces: once a run of the callback has saved a message
\* list, a later run for the same session on the same list finds nothing
\* to write and issues no persistence call.
AutosaveQuiesces ==
  \A c \in DOMAIN saves : \A d \in DOMAIN saves :
    ( /\ c < d
      /\ saves[c].pc = "saved"
      /\ saves[d].sessionId = saves[c].sessionId
      /\ saves[d].messages = saves[c].messages )
    => saves[d].pc = "nothing"

\* C30: a stop request acts on the current generation at any moment while
\* isLoading is true: there is an abort controller for stopGeneration to
\* abort, also between the acceptance of the send and startStreaming.
StopAlwaysActs ==
  isLoading => abortControllerRef # NoController

\* the generations whose failure the error banner may show: those that
\* failed in the conversation on screen
FailedHere == { g \in Gens : pc[g] = "failed" /\ sessionOf[g] = currentSessionId }

\* C24: the error shown belongs to the conversation on screen: whenever an
\* error is set, a generation of the current conversation has failed.
ErrorOfCurrentConversation ==
  error # <<>> => FailedHere # {}

\* C25: the summary job of a generation of another conversation than the
\* one on screen does not install its result: chatSummary keeps the value
\* the reset of clearChat or loadSession gave it.
NoStaleSummaryInstalled ==
  [][\A g \in Gens :
       ( /\ summaryJob[g] = "streaming"
         /\ summaryJob'[g] = "resolved"
         /\ sessionOf[g] # currentSessionId )
       => chatSummary' = chatSummary]_vars

\* C28: the current session id names an entry of the in-memory session list.
CurrentSessionListed ==
  currentSessionId \in DOMAIN sessions

=============================================================================
